---- MODULE Spec2Model ----
(***************************************************************************)
(* Model of synth_controller.ino: a monophonic MIDI-controlled oscillator. *)
(* The main loop dispatches MIDI callbacks (handleNoteOn, handleNoteOff,   *)
(* handlePitchBend); two timer overflow interrupts run the reset-pulse /   *)
(* sub-oscillator toggle (TIMER1_OVF_vect) and the LFSR noise generator    *)
(* (TIMER2_OVF_vect).  Build configuration: MK2HW defined, ANALOG_CONTROL  *)
(* not defined.                                                            *)
(***************************************************************************)
EXTENDS Integers, Sequences, FiniteSets

VARIABLES
    keysPressedArray,      \* int[128] of 0/1 entries, as the set of indices holding 1
    currentMidiNote,       \* int, the stored current note
    midiControlVoltage,    \* float, as volts * 2^27
    analogControlVoltage,  \* float, as volts * 2^27 (never written: ANALOG_CONTROL off)
    bendControlVoltage,    \* float, as volts * 2^27
    OCR1A,                 \* 16-bit timer 1 compare register (OCR1AH:OCR1AL)
    OCR2B,                 \* 8-bit timer 2 compare register (PWM duty)
    gatePin,               \* level of GATE_PIN
    oddEvenIntCnt,         \* bool, parity of timer 1 overflows
    lfsr,                  \* uint32_t as <<high 16 bits, low 16 bits>>
    noisePin,              \* PORTD bit 7
    subOscPin,             \* PORTD bit 6
    resetPin,              \* PORTB bit 4
    \* observers (history of what ran; no code reads them)
    last,                  \* the handler that ran last and its argument
    keyDown,               \* the notes whose most recent note event was a NoteOn
    overflows,             \* number of timer 1 overflows handled
    strobes,               \* number of reset pulses emitted
    toggles,               \* number of sub-oscillator toggles
    ticks,                 \* number of timer 2 overflows handled
    runLen,                \* length of the current run of equal noise bits
    pitchedNote,           \* the note most recently passed to setNotePitch
    bentBy,                \* the value of the most recent PitchBend, 0 if none
    \* the main loop seen instruction by instruction (SpecSteps)
    todo,                  \* the writes the running callback has still to make
    arg,                   \* the note parameter of the running synthNoteOn
    timerSetting,          \* the timerSetting local of updateNotePitch
    freqHz,                \* the freqHz local of updateNotePitch, a float32
    TEMP                   \* the AVR's shared high-byte latch for 16-bit registers

midiVars == <<keysPressedArray, currentMidiNote, midiControlVoltage,
              analogControlVoltage, bendControlVoltage, OCR1A, OCR2B, gatePin>>
toggleVars == <<oddEvenIntCnt, subOscPin, resetPin, overflows, strobes, toggles>>
noiseVars == <<lfsr, noisePin, ticks, runLen>>
pitchHist == <<pitchedNote, bentBy>>
stepVars == <<todo, arg, timerSetting, freqHz, TEMP>>
vars == <<midiVars, toggleVars, noiseVars, last, keyDown, pitchHist, stepVars>>

(***************************************************************************)
(* Bounds of the model.                                                    *)
(***************************************************************************)
TopPitches == 1          \* the event source plays the TopPitches highest notes ...
MaxOverflows == 3        \* timer 1 overflows followed in Spec
MaxNoiseTicks == 1       \* timer 2 overflows followed in Spec
NoiseWindowLog2 == 20    \* timer 2 overflows followed in SpecNoise: 2^20

NoteRange == 0..127
\* ... and a few fixed ones: the lowest note, 60 and 64.
Pitches == {0, 60, 64} \cup ((128 - TopPitches)..127)
Bends == {-8192, -1, 0, 8191}
NoiseWindow == 2^NoiseWindowLog2

\* the write-by-write specification: noise ticks taken, notes and bends sent
StepNoiseTicks == 1
StepPitches == {0, 60, 64}
StepBends == {-8192, 0}

(***************************************************************************)
(* Program constants.                                                      *)
(***************************************************************************)
MIDI_BASE_NOTE == 21
ScanLimit == 127         \* for (count = 0; count < 127; count++)
SetupNote == 60          \* setNotePitch(60) in setup()
PwmMax == 255
FeedbackHi == 41728      \* 0xA3000000 >> 16 = 0xA300
FeedbackLo == 0          \* 0xA3000000 & 0xFFFF
LfsrSeedHi == 0
LfsrSeedLo == 1          \* uint32_t lfsr = 1
LfsrBits == 32           \* uint32_t
PowUlps == 8             \* floats that pow() may be off the nearest float, at most

\* the rounding errors pow() can make, and the ones the specifications follow:
\* both ends of the range and none
PowErrRange == (-PowUlps)..PowUlps
PowErrors == {-PowUlps, 0, PowUlps}

(***************************************************************************)
(* Arithmetic.  On the AVR float and double are both the IEEE 32-bit       *)
(* format, so every operation of the pitch computation rounds its result   *)
(* to 24 significant bits, ties to even.  A float32 is the pair <<m, e>>   *)
(* with value m * 2^e and 2^23 <= m < 2^24, or <<0, 0>>.  The three        *)
(* control voltages are held as the integer v * 2^27: every voltage the    *)
(* program can form is a multiple of 2^-27 V.  Every intermediate value    *)
(* stays below 2^31.                                                       *)
(***************************************************************************)
CvUnitsPerVolt == 2^27
MantissaBits == 24       \* significant bits of the 32-bit float format

Abs(x) == IF x < 0 THEN -x ELSE x

\* the number of low bits n has beyond 24
RECURSIVE ExcessBits(_)
ExcessBits(n) == IF n < 2^MantissaBits THEN 0 ELSE 1 + ExcessBits(n \div 2)

\* n * 2^e with n brought up to 24 bits
RECURSIVE ShiftUp(_, _)
ShiftUp(n, e) == IF n >= 2^(MantissaBits - 1) THEN <<n, e>> ELSE ShiftUp(2 * n, e - 1)

\* n * 2^e with the low s bits of n rounded away, ties to even
RoundAway(n, e, s) ==
    LET q == n \div 2^s
        r == n % 2^s
        half == 2^(s - 1)
        up == IF r > half \/ (r = half /\ q % 2 = 1) THEN 1 ELSE 0
    IN  IF q + up = 2^MantissaBits
        THEN <<2^(MantissaBits - 1), e + s + 1>>
        ELSE <<q + up, e + s>>

\* the float32 nearest to n * 2^e, ties to even, for 0 <= n < 2^31
F32Round(n, e) ==
    IF n = 0 THEN <<0, 0>>
    ELSE IF n < 2^MantissaBits THEN ShiftUp(n, e)
    ELSE RoundAway(n, e, ExcessBits(n))

\* the whole part of a float32 f >= 0: (long)f
F32ToLong(f) == IF f[2] >= 0 THEN f[1] * 2^f[2] ELSE f[1] \div 2^(-f[2])

\* x + y in float32, for two voltages
F32Add(x, y) ==
    IF x + y < 0
    THEN -F32ToLong(F32Round(-(x + y), 0))
    ELSE F32ToLong(F32Round(x + y, 0))

\* (long)(t + 0.5) for a float32 t >= 0: round() of Arduino.h
F32RoundToLong(t) ==
    IF t[2] >= 0 THEN F32ToLong(t)
    ELSE F32ToLong(F32Round(t[1] + 2^(-t[2] - 1), t[2]))

\* a * 2^j with 64 <= a * 2^j < 128, and j
RECURSIVE LeftAlign(_, _)
LeftAlign(a, j) == IF a >= 64 THEN <<a, j>> ELSE LeftAlign(2 * a, j + 1)

\* the float32 nearest to k / 12, as volts * 2^27, for al = LeftAlign(k, 0)
TwelfthOf(al) ==
    F32ToLong(F32Round(2 * ((al[1] * 2^24) \div 12) + (IF al[1] % 3 = 0 THEN 0 ELSE 1),
                       2 - al[2]))

\* midiControlVoltage = (note - MIDI_BASE_NOTE) * VOLTS_PER_SEMITONE, which the
\* preprocessor makes ((note - 21) * 1.0 / 12.0): one float32 division
NoteVoltage(note) ==
    LET k == note - MIDI_BASE_NOTE
    IN  IF k = 0 THEN 0
        ELSE IF k < 0 THEN -TwelfthOf(LeftAlign(-k, 0))
        ELSE TwelfthOf(LeftAlign(k, 0))

\* bendControlVoltage = (float)bend * PITCH_BEND_FACTOR: bend / 32768, exact
BendVoltage(bend) == bend * (CvUnitsPerVolt \div 32768)

\* 2^(2^-i), i = 1..27, with 56 fractional bits in five 14-bit limbs
Pow2Root ==
    <<
       <<1, 6786, 7782, 8142, 15561>>,
       <<1, 3099, 15882, 3181, 12627>>,
       <<1, 1482, 14396, 8020, 6062>>,
       <<1, 725, 6252, 15970, 4342>>,
       <<1, 358, 12499, 1377, 5956>>,
       <<1, 178, 6718, 7648, 1551>>,
       <<1, 88, 15785, 16076, 13143>>,
       <<1, 44, 6906, 5807, 3053>>,
       <<1, 22, 3206, 13959, 159>>,
       <<1, 11, 1541, 14522, 3308>>,
       <<1, 5, 8947, 9232, 1312>>,
       <<1, 2, 12661, 15359, 7287>>,
       <<1, 1, 6330, 126, 14841>>,
       <<1, 0, 11356, 12511, 6805>>,
       <<1, 0, 5678, 5271, 11781>>,
       <<1, 0, 2839, 2389, 14172>>,
       <<1, 0, 1419, 9325, 7114>>,
       <<1, 0, 709, 12839, 5612>>,
       <<1, 0, 354, 14607, 13560>>,
       <<1, 0, 177, 7302, 15613>>,
       <<1, 0, 88, 11843, 3870>>,
       <<1, 0, 44, 5921, 9143>>,
       <<1, 0, 22, 2960, 12518>>,
       <<1, 0, 11, 1480, 6197>>,
       <<1, 0, 5, 8932, 3083>>,
       <<1, 0, 2, 12658, 1538>>,
       <<1, 0, 1, 6329, 768>>
    >>

\* a * b for two such numbers in [1, 2), cut to 56 fractional bits
MulQ56(a, b) ==
    LET c6 == a[3] * b[5] + a[4] * b[4] + a[5] * b[3]
        c5 == a[2] * b[5] + a[3] * b[4] + a[4] * b[3] + a[5] * b[2] + (c6 \div 16384)
        c4 == a[1] * b[5] + a[2] * b[4] + a[3] * b[3] + a[4] * b[2] + a[5] * b[1]
              + (c5 \div 16384)
        c3 == a[1] * b[4] + a[2] * b[3] + a[3] * b[2] + a[4] * b[1] + (c4 \div 16384)
        c2 == a[1] * b[3] + a[2] * b[2] + a[3] * b[1] + (c3 \div 16384)
        c1 == a[1] * b[2] + a[2] * b[1] + (c2 \div 16384)
        c0 == a[1] * b[1] + (c1 \div 16384)
    IN  <<c0, c1 % 16384, c2 % 16384, c3 % 16384, c4 % 16384>>

\* 2^(fr / 2^27) for 0 <= fr < 2^27: the product of the roots of the set bits
RECURSIVE Pow2Frac(_, _, _)
Pow2Frac(fr, i, g) ==
    IF i > 27 THEN g
    ELSE Pow2Frac(fr, i + 1,
                  IF (fr \div 2^(27 - i)) % 2 = 1 THEN MulQ56(g, Pow2Root[i]) ELSE g)

\* the float32 nearest to g * 2^oct, g in [1, 2) with 56 fractional bits
F32OfQ56(g, oct) ==
    LET m == g[1] * 2^23 + g[2] * 2^9 + (g[3] \div 32)
        r == g[3] % 32
        up == IF r > 16 \/ (r = 16 /\ (g[4] + g[5] > 0 \/ m % 2 = 1)) THEN 1 ELSE 0
    IN  IF m + up = 2^MantissaBits
        THEN <<2^(MantissaBits - 1), oct - 22>>
        ELSE <<m + up, oct - 23>>

\* the float32 nearest to 2^cv
Pow2Nearest(cv) ==
    F32OfQ56(Pow2Frac(cv % CvUnitsPerVolt, 1, <<1, 0, 0, 0, 0>>), cv \div CvUnitsPerVolt)

BaseNoteFreqHalves == 55       \* BASE_NOTE_FREQ 27.5 = 55 * 2^-1
MicrosOdd == 15625             \* 1000000.0 = 15625 * 2^6
PwmMultiplierHi == 3276        \* PWM_DAC_MULTIPLIER 0.2 as a float32 is
PwmMultiplierLo == 3277        \* (3276 * 4096 + 3277) * 2^-26

\* the control voltages of every note with every bend of the specifications
SweptVoltages ==
    {F32Add(NoteVoltage(n), BendVoltage(b)) : n \in NoteRange, b \in Bends \cup StepBends}

\* the same, worked out once for the swept voltages
Pow2NearestTable == [cv \in SweptVoltages |-> Pow2Nearest(cv)]

\* the float32 that is err floats above p (below p when err < 0), for a
\* normal p and |err| < 2^23
UlpsFrom(p, err) ==
    LET m == p[1] + err
    IN  IF m >= 2^MantissaBits THEN <<m - 2^(MantissaBits - 1), p[2] + 1>>
        ELSE IF m < 2^(MantissaBits - 1) THEN <<m + 2^(MantissaBits - 1), p[2] - 1>>
        ELSE <<m, p[2]>>

\* pow(2.0, cv).  pow() is the C library's and its rounding is not the
\* program's to choose: the value returned is the float32 err floats away
\* from the one nearest to 2^cv, for some err in PowErrRange.
Pow2(cv, err) ==
    UlpsFrom(IF cv \in SweptVoltages THEN Pow2NearestTable[cv] ELSE Pow2Nearest(cv), err)

\* BASE_NOTE_FREQ * p in float32
TimesBaseNoteFreq(p) == F32Round(BaseNoteFreqHalves * p[1], p[2] - 1)

\* freqHz = BASE_NOTE_FREQ * pow(2.0, controlVoltage), a float32
FreqHz(cv, err) == TimesBaseNoteFreq(Pow2(cv, err))

\* <<quotient, remainder>> of r * 2^(7n) by d, seven bits at a time
RECURSIVE LongDiv(_, _, _, _)
LongDiv(r, q, d, n) ==
    IF n = 0 THEN <<q, r>>
    ELSE LongDiv((r * 128) % d, q * 128 + ((r * 128) \div d), d, n - 1)

\* 1000000.0 / freq in float32
\* the float32 nearest to (quotient + a fraction iff the remainder is not 0) * 2^(e + 1)
WithSticky(qr, e) == F32Round(2 * qr[1] + (IF qr[2] = 0 THEN 0 ELSE 1), e)

MicrosPerCycle(freq) == WithSticky(LongDiv(MicrosOdd, 0, freq[1], 5), -30 - freq[2])

\* round(q - 1.0)
LessOneRounded(q) == F32RoundToLong(F32Round(q[1] - 2^(-q[2]), q[2]))

\* round((1000000.0 / freqHz) - 1.0) as the long that round() yields
PeriodTicks(freq) == LessOneRounded(MicrosPerCycle(freq))

\* uint16_t timerSetting = round(...): the long is cut to 16 bits
TimerSetting(freq) == PeriodTicks(freq) % 65536

\* setTimer1: OCR1AH = val >> 8; OCR1AL = val
setTimer1(val) == ((val \div 256) % 256) * 256 + (val % 256)

\* round(PWM_DAC_MULTIPLIER * freqHz) as the long that round() yields; the
\* 48-bit product of the two mantissas is formed in 12-bit halves
PwmRound(freq) ==
    LET a1 == freq[1] \div 4096
        a0 == freq[1] % 4096
        low == a0 * PwmMultiplierLo
        mid == a1 * PwmMultiplierLo + a0 * PwmMultiplierHi + (low \div 4096)
        hi == a1 * PwmMultiplierHi * 4 + (mid \div 1024)
        sticky == IF mid % 1024 # 0 \/ low % 4096 # 0 THEN 1 ELSE 0
    IN  F32RoundToLong(F32Round(2 * hi + sticky, freq[2] - 5))

\* conversion of a long to the 16-bit int of the AVR
ToInt16(x) == ((x + 32768) % 65536) - 32768

\* Mutant of oscSetPwm: the cap at 255 is missing.
oscSetPwm_noClamp(freq) == ToInt16(PwmRound(freq)) % 256

\* oscSetPwm: int pwm_val = round(...), capped at 255, written to the 8-bit OCR2B
oscSetPwm(freq) ==
    LET pwm_val == ToInt16(PwmRound(freq))
    IN  (IF pwm_val > PwmMax THEN PwmMax ELSE pwm_val) % 256

(***************************************************************************)
(* 32-bit LFSR arithmetic on <<high word, low word>>.                      *)
(***************************************************************************)
RECURSIVE XorBits(_, _, _)
XorBits(a, b, n) ==
    IF n = 0 THEN 0
    ELSE ((a + b) % 2) + 2 * XorBits(a \div 2, b \div 2, n - 1)

Xor16(a, b) == XorBits(a, b, 16)

\* lfsr >>= 1
ShiftRight1(w) == << w[1] \div 2, (w[2] \div 2) + (w[1] % 2) * 32768 >>

\* Mutant of LfsrAdvance: the feedback mask is never folded in.
LfsrAdvance_noFeedback(w) == ShiftRight1(w)

\* lfsr >>= 1; if (lsb) lfsr ^= 0xA3000000u
LfsrAdvance(w) ==
    LET sh == ShiftRight1(w)
    IN  IF w[2] % 2 = 1
        THEN << Xor16(sh[1], FeedbackHi), Xor16(sh[2], FeedbackLo) >>
        ELSE sh

(***************************************************************************)
(* The MIDI path: callbacks run by MIDI.read() in loop().                  *)
(***************************************************************************)
Max(S) == CHOOSE x \in S : \A y \in S : y <= x

\* findHighestKeyPressed: highest index with keys[count] == 1 among the
\* indices the loop visits, -1 if none
findHighestKeyPressed(keys) ==
    LET found == {count \in 0..(ScanLimit - 1) : count \in keys}
    IN  IF found = {} THEN -1 ELSE Max(found)

\* readAnalogControlVoltage: (float)(analogRead(A0) - 512) * 1.0 / 512.0, exact.
\* loop() calls it only under ANALOG_CONTROL, which this source leaves
\* undefined, so no specification takes this step and analogControlVoltage
\* keeps its initializer.
readAnalogControlVoltage(sample) ==
    analogControlVoltage' = (sample - 512) * (CvUnitsPerVolt \div 512)

\* updateNotePitch with the three voltage components as they stand, pow()
\* being err floats off the nearest
updateNotePitch(midiV, bendV, analogV, err) ==
    LET controlVoltage == F32Add(F32Add(midiV, bendV), analogV)
    IN  /\ freqHz' = FreqHz(controlVoltage, err)
        /\ timerSetting' = TimerSetting(freqHz')
        /\ TEMP' = (timerSetting' \div 256) % 256
        /\ OCR1A' = setTimer1(timerSetting')
        /\ OCR2B' = oscSetPwm(freqHz')

\* Mutant of setNotePitch: the pitch is computed from the note alone.
setNotePitch_ignoresBend(note, err) ==
    /\ midiControlVoltage' = NoteVoltage(note)
    /\ pitchedNote' = note
    /\ updateNotePitch(NoteVoltage(note), 0, analogControlVoltage, err)

\* setNotePitch(note)
setNotePitch(note, err) ==
    /\ midiControlVoltage' = NoteVoltage(note)
    /\ pitchedNote' = note
    /\ updateNotePitch(NoteVoltage(note), bendControlVoltage, analogControlVoltage, err)

\* synthNoteOn(note): pitch, then gate on, then store the current note
synthNoteOn(note, err) ==
    /\ setNotePitch(note, err)
    /\ gatePin' = TRUE
    /\ currentMidiNote' = note
    /\ arg' = note

\* synthNoteOff(): gate off
synthNoteOff ==
    /\ gatePin' = FALSE

\* Mutant of noteOffAction: the scan reads the array as it was before the
\* released key was cleared.
noteOffAction_scanBeforeClear(pitch, err) ==
    IF pitch = currentMidiNote
    THEN LET highestKeyPressed == findHighestKeyPressed(keysPressedArray)
         IN  IF highestKeyPressed # -1
             THEN synthNoteOn(highestKeyPressed, err)
             ELSE /\ synthNoteOff
                  /\ UNCHANGED <<currentMidiNote, midiControlVoltage, pitchedNote, OCR1A, OCR2B, arg, timerSetting, freqHz, TEMP>>
    ELSE UNCHANGED <<currentMidiNote, midiControlVoltage, pitchedNote, OCR1A, OCR2B, arg, timerSetting, freqHz, TEMP, gatePin>>

\* Mutant of noteOffAction: a proper note off also clears the stored note.
noteOffAction_clearsNote(pitch, err) ==
    IF pitch = currentMidiNote
    THEN LET highestKeyPressed == findHighestKeyPressed(keysPressedArray')
         IN  IF highestKeyPressed # -1
             THEN synthNoteOn(highestKeyPressed, err)
             ELSE /\ synthNoteOff
                  /\ currentMidiNote' = -1
                  /\ UNCHANGED <<midiControlVoltage, pitchedNote, OCR1A, OCR2B, arg, timerSetting, freqHz, TEMP>>
    ELSE UNCHANGED <<currentMidiNote, midiControlVoltage, pitchedNote, OCR1A, OCR2B, arg, timerSetting, freqHz, TEMP, gatePin>>

\* Mutant of noteOffAction: every NoteOff re-runs the priority scan.
noteOffAction_alwaysRescan(pitch, err) ==
    LET highestKeyPressed == findHighestKeyPressed(keysPressedArray')
    IN  IF highestKeyPressed # -1
        THEN synthNoteOn(highestKeyPressed, err)
        ELSE /\ synthNoteOff
             /\ UNCHANGED <<currentMidiNote, midiControlVoltage, pitchedNote, OCR1A, OCR2B, arg, timerSetting, freqHz, TEMP>>

\* Mutant of noteOffAction: the released pitch is compared with >= for ==.
noteOffAction_geCompare(pitch, err) ==
    IF pitch >= currentMidiNote
    THEN LET highestKeyPressed == findHighestKeyPressed(keysPressedArray')
         IN  IF highestKeyPressed # -1
             THEN synthNoteOn(highestKeyPressed, err)
             ELSE /\ synthNoteOff
                  /\ UNCHANGED <<currentMidiNote, midiControlVoltage, pitchedNote, OCR1A, OCR2B, arg, timerSetting, freqHz, TEMP>>
    ELSE UNCHANGED <<currentMidiNote, midiControlVoltage, pitchedNote, OCR1A, OCR2B, arg, timerSetting, freqHz, TEMP, gatePin>>

\* Mutant of noteOffAction: the proper note off is missing.
noteOffAction_noNoteOff(pitch, err) ==
    IF pitch = currentMidiNote
    THEN LET highestKeyPressed == findHighestKeyPressed(keysPressedArray')
         IN  IF highestKeyPressed # -1
             THEN synthNoteOn(highestKeyPressed, err)
             ELSE UNCHANGED <<currentMidiNote, midiControlVoltage, pitchedNote, OCR1A, OCR2B, arg, timerSetting, freqHz, TEMP, gatePin>>
    ELSE UNCHANGED <<currentMidiNote, midiControlVoltage, pitchedNote, OCR1A, OCR2B, arg, timerSetting, freqHz, TEMP, gatePin>>

\* what handleNoteOff does after it has cleared the key
noteOffAction(pitch, err) ==
    IF pitch = currentMidiNote
    THEN LET highestKeyPressed == findHighestKeyPressed(keysPressedArray')
         IN  IF highestKeyPressed # -1
             THEN synthNoteOn(highestKeyPressed, err)
             ELSE /\ synthNoteOff
                  /\ UNCHANGED <<currentMidiNote, midiControlVoltage, pitchedNote, OCR1A, OCR2B, arg, timerSetting, freqHz, TEMP>>
    ELSE UNCHANGED <<currentMidiNote, midiControlVoltage, pitchedNote, OCR1A, OCR2B, arg, timerSetting, freqHz, TEMP, gatePin>>

\* Mutant of handleNoteOn: a NoteOn below the sounding note only marks the key.
handleNoteOn_highestWins(pitch, err) ==
    /\ keysPressedArray' = keysPressedArray \cup {pitch}
    /\ IF gatePin /\ currentMidiNote > pitch
       THEN UNCHANGED <<currentMidiNote, midiControlVoltage, pitchedNote, OCR1A, OCR2B, arg, timerSetting, freqHz, TEMP, gatePin>>
       ELSE synthNoteOn(pitch, err)
    /\ last' = [op |-> "NoteOn", arg |-> pitch]
    /\ keyDown' = keyDown \cup {pitch}
    /\ UNCHANGED <<analogControlVoltage, bendControlVoltage, bentBy, toggleVars, noiseVars, todo>>

handleNoteOn(pitch, err) ==
    /\ keysPressedArray' = keysPressedArray \cup {pitch}
    /\ synthNoteOn(pitch, err)
    /\ last' = [op |-> "NoteOn", arg |-> pitch]
    /\ keyDown' = keyDown \cup {pitch}
    /\ UNCHANGED <<analogControlVoltage, bendControlVoltage, bentBy, toggleVars, noiseVars, todo>>

\* Mutant of handleNoteOff: the key is cleared only when it is the sounding one.
handleNoteOff_clearOnlyCurrent(pitch, err) ==
    /\ keysPressedArray' = IF pitch = currentMidiNote
                           THEN keysPressedArray \ {pitch}
                           ELSE keysPressedArray
    /\ noteOffAction(pitch, err)
    /\ last' = [op |-> "NoteOff", arg |-> pitch]
    /\ keyDown' = keyDown \ {pitch}
    /\ UNCHANGED <<analogControlVoltage, bendControlVoltage, bentBy, toggleVars, noiseVars, todo>>

handleNoteOff(pitch, err) ==
    /\ keysPressedArray' = keysPressedArray \ {pitch}
    /\ noteOffAction(pitch, err)
    /\ last' = [op |-> "NoteOff", arg |-> pitch]
    /\ keyDown' = keyDown \ {pitch}
    /\ UNCHANGED <<analogControlVoltage, bendControlVoltage, bentBy, toggleVars, noiseVars, todo>>

\* Mutant of handlePitchBend: the pitch is recomputed only while a note sounds.
handlePitchBend_onlyWhenGateOn(bend, err) ==
    /\ bendControlVoltage' = BendVoltage(bend)
    /\ IF gatePin
       THEN updateNotePitch(midiControlVoltage, BendVoltage(bend), analogControlVoltage, err)
       ELSE UNCHANGED <<OCR1A, OCR2B, timerSetting, freqHz, TEMP>>
    /\ last' = [op |-> "PitchBend", arg |-> bend]
    /\ bentBy' = bend
    /\ UNCHANGED <<keysPressedArray, currentMidiNote, midiControlVoltage, pitchedNote,
                   analogControlVoltage, gatePin, keyDown, toggleVars, noiseVars, todo, arg>>

handlePitchBend(bend, err) ==
    /\ bendControlVoltage' = BendVoltage(bend)
    /\ updateNotePitch(midiControlVoltage, BendVoltage(bend), analogControlVoltage, err)
    /\ last' = [op |-> "PitchBend", arg |-> bend]
    /\ bentBy' = bend
    /\ UNCHANGED <<keysPressedArray, currentMidiNote, midiControlVoltage, pitchedNote,
                   analogControlVoltage, gatePin, keyDown, toggleVars, noiseVars, todo, arg>>

(***************************************************************************)
(* The interrupt handlers.  An AVR handler runs with interrupts disabled,  *)
(* so each one is a single step.                                           *)
(***************************************************************************)
\* Mutant of TIMER1_OVF_vect: the parity flag is not cleared after a pulse.
TIMER1_OVF_vect_flagNotCleared ==
    /\ overflows < MaxOverflows
    /\ overflows' = overflows + 1
    /\ IF oddEvenIntCnt
       THEN /\ subOscPin' = ~subOscPin
            /\ oddEvenIntCnt' = oddEvenIntCnt
            /\ resetPin' = FALSE
            /\ strobes' = strobes + 1
            /\ toggles' = toggles + 1
       ELSE /\ oddEvenIntCnt' = TRUE
            /\ UNCHANGED <<subOscPin, resetPin, strobes, toggles>>
    /\ last' = [op |-> "TIMER1_OVF", arg |-> 0]
    /\ UNCHANGED <<midiVars, noiseVars, keyDown, pitchHist, stepVars>>

\* SIGNAL(TIMER1_OVF_vect): every other call pulses the integrator reset
\* (high, 10 us, low) and toggles the sub oscillator
TIMER1_OVF_vect ==
    /\ overflows < MaxOverflows
    /\ overflows' = overflows + 1
    /\ IF oddEvenIntCnt
       THEN /\ subOscPin' = ~subOscPin
            /\ oddEvenIntCnt' = FALSE
            /\ resetPin' = FALSE
            /\ strobes' = strobes + 1
            /\ toggles' = toggles + 1
       ELSE /\ oddEvenIntCnt' = TRUE
            /\ UNCHANGED <<subOscPin, resetPin, strobes, toggles>>
    /\ last' = [op |-> "TIMER1_OVF", arg |-> 0]
    /\ UNCHANGED <<midiVars, noiseVars, keyDown, pitchHist, stepVars>>

\* Mutant of TIMER2_OVF_vect: the register is advanced before its low bit is
\* put on the pin.
TIMER2_OVF_vect_emitAfterAdvance(limit) ==
    LET lsb == LfsrAdvance(lfsr)[2] % 2
    IN  /\ ticks < limit
        /\ ticks' = ticks + 1
        /\ noisePin' = (lsb = 1)
        /\ lfsr' = LfsrAdvance(lfsr)
        /\ runLen' = IF ticks > 0 /\ noisePin = (lsb = 1) THEN runLen + 1 ELSE 1
        /\ last' = [op |-> "TIMER2_OVF", arg |-> 0]
        /\ UNCHANGED <<midiVars, toggleVars, keyDown, pitchHist, stepVars>>

\* Mutant of TIMER2_OVF_vect: the noise bit is stored to the whole of PORTD,
\* which clears the sub-oscillator pin.
TIMER2_OVF_vect_wholePort(limit) ==
    LET lsb == lfsr[2] % 2
    IN  /\ ticks < limit
        /\ ticks' = ticks + 1
        /\ noisePin' = (lsb = 1)
        /\ subOscPin' = FALSE
        /\ lfsr' = LfsrAdvance(lfsr)
        /\ runLen' = IF ticks > 0 /\ noisePin = (lsb = 1) THEN runLen + 1 ELSE 1
        /\ last' = [op |-> "TIMER2_OVF", arg |-> 0]
        /\ UNCHANGED <<midiVars, oddEvenIntCnt, resetPin, overflows, strobes, toggles,
                       keyDown, pitchHist, stepVars>>

\* SIGNAL(TIMER2_OVF_vect): put the low bit on the noise pin, advance the LFSR
TIMER2_OVF_vect(limit) ==
    LET lsb == lfsr[2] % 2
    IN  /\ ticks < limit
        /\ ticks' = ticks + 1
        /\ noisePin' = (lsb = 1)
        /\ lfsr' = LfsrAdvance(lfsr)
        /\ runLen' = IF ticks > 0 /\ noisePin = (lsb = 1) THEN runLen + 1 ELSE 1
        /\ last' = [op |-> "TIMER2_OVF", arg |-> 0]
        /\ UNCHANGED <<midiVars, toggleVars, keyDown, pitchHist, stepVars>>

(***************************************************************************)
(* The main loop write by write.  The callbacks never mask interrupts      *)
(* (digitalWrite does, for its own port update, which is one write here),  *)
(* so either handler may run between any two writes of a                   *)
(* callback.  A callback is the list of the writes it has still to make;   *)
(* its reads (the comparison with currentMidiNote, the scan) touch nothing *)
(* a handler writes and are taken with the first write.                    *)
(***************************************************************************)
\* Mutant of setTimer1Steps: the low byte is written first.
setTimer1Steps_lowByteFirst == <<"OCR1AL", "OCR1AH">>

\* setTimer1: OCR1AH = val >> 8; OCR1AL = val
setTimer1Steps == <<"OCR1AH", "OCR1AL">>

\* updateNotePitch: the locals, setTimer1(timerSetting), oscSetPwm(freqHz)
updateNotePitchSteps == <<"locals">> \o setTimer1Steps \o <<"OCR2B">>

\* setNotePitch: midiControlVoltage, then updateNotePitch()
setNotePitchSteps == <<"midiControlVoltage">> \o updateNotePitchSteps

\* Mutant of synthNoteOnSteps: the gate is raised before the pitch is set.
synthNoteOnSteps_gateFirst == <<"gateHigh">> \o setNotePitchSteps \o <<"currentMidiNote">>

\* synthNoteOn: setNotePitch(note), gate high, currentMidiNote = note
synthNoteOnSteps == setNotePitchSteps \o <<"gateHigh", "currentMidiNote">>

\* synthNoteOff: gate low
synthNoteOffSteps == <<"gateLow">>

\* what setup() still does once the timer interrupts are enabled:
\* setNotePitch(60), then it returns and loop() starts
setupSteps == setNotePitchSteps \o <<"loop">>

\* Mutant of beginNoteOn: a NoteOn is taken while a callback is still running.
beginNoteOn_reentrant(pitch) ==
    /\ keysPressedArray' = keysPressedArray \cup {pitch}
    /\ arg' = pitch
    /\ todo' = synthNoteOnSteps
    /\ last' = [op |-> "NoteOn", arg |-> pitch]
    /\ keyDown' = keyDown \cup {pitch}
    /\ UNCHANGED <<currentMidiNote, midiControlVoltage, analogControlVoltage,
                   bendControlVoltage, OCR1A, OCR2B, gatePin, pitchHist,
                   timerSetting, freqHz, TEMP, toggleVars, noiseVars>>

\* handleNoteOn as MIDI.read() enters it
beginNoteOn(pitch) ==
    /\ todo = <<>>
    /\ keysPressedArray' = keysPressedArray \cup {pitch}
    /\ arg' = pitch
    /\ todo' = synthNoteOnSteps
    /\ last' = [op |-> "NoteOn", arg |-> pitch]
    /\ keyDown' = keyDown \cup {pitch}
    /\ UNCHANGED <<currentMidiNote, midiControlVoltage, analogControlVoltage,
                   bendControlVoltage, OCR1A, OCR2B, gatePin, pitchHist,
                   timerSetting, freqHz, TEMP, toggleVars, noiseVars>>

\* handleNoteOff as MIDI.read() enters it
beginNoteOff(pitch) ==
    /\ todo = <<>>
    /\ keysPressedArray' = keysPressedArray \ {pitch}
    /\ IF pitch = currentMidiNote
       THEN LET highestKeyPressed == findHighestKeyPressed(keysPressedArray')
            IN  IF highestKeyPressed # -1
                THEN arg' = highestKeyPressed /\ todo' = synthNoteOnSteps
                ELSE arg' = arg /\ todo' = synthNoteOffSteps
       ELSE arg' = arg /\ todo' = <<>>
    /\ last' = [op |-> "NoteOff", arg |-> pitch]
    /\ keyDown' = keyDown \ {pitch}
    /\ UNCHANGED <<currentMidiNote, midiControlVoltage, analogControlVoltage,
                   bendControlVoltage, OCR1A, OCR2B, gatePin, pitchHist,
                   timerSetting, freqHz, TEMP, toggleVars, noiseVars>>

\* handlePitchBend as MIDI.read() enters it
beginPitchBend(bend) ==
    /\ todo = <<>>
    /\ bendControlVoltage' = BendVoltage(bend)
    /\ bentBy' = bend
    /\ todo' = updateNotePitchSteps
    /\ last' = [op |-> "PitchBend", arg |-> bend]
    /\ UNCHANGED <<keysPressedArray, currentMidiNote, midiControlVoltage, pitchedNote,
                   analogControlVoltage, OCR1A, OCR2B, gatePin, keyDown,
                   arg, timerSetting, freqHz, TEMP, toggleVars, noiseVars>>

\* the next write of the running callback.  A write to OCR1AH goes to the
\* TEMP latch; the write to OCR1AL stores latch and low byte together.
\* err is the rounding error of pow() when the step is the one calling it.
mainStep(err) ==
    /\ todo # <<>>
    /\ LET w == Head(todo)
           controlVoltage ==
               F32Add(F32Add(midiControlVoltage, bendControlVoltage), analogControlVoltage)
       IN  /\ midiControlVoltage' =
                 IF w = "midiControlVoltage" THEN NoteVoltage(arg) ELSE midiControlVoltage
           /\ pitchedNote' = IF w = "midiControlVoltage" THEN arg ELSE pitchedNote
           /\ freqHz' = IF w = "locals" THEN FreqHz(controlVoltage, err) ELSE freqHz
           /\ timerSetting' = IF w = "locals" THEN TimerSetting(freqHz') ELSE timerSetting
           /\ TEMP' = IF w = "OCR1AH" THEN (timerSetting \div 256) % 256 ELSE TEMP
           /\ OCR1A' = IF w = "OCR1AL" THEN TEMP * 256 + (timerSetting % 256) ELSE OCR1A
           /\ OCR2B' = IF w = "OCR2B" THEN oscSetPwm(freqHz) ELSE OCR2B
           /\ gatePin' = IF w = "gateHigh" THEN TRUE
                         ELSE IF w = "gateLow" THEN FALSE ELSE gatePin
           /\ currentMidiNote' = IF w = "currentMidiNote" THEN arg ELSE currentMidiNote
    /\ todo' = Tail(todo)
    /\ UNCHANGED <<keysPressedArray, analogControlVoltage, bendControlVoltage, bentBy,
                   arg, last, keyDown, toggleVars, noiseVars>>

(***************************************************************************)
(* Initial state: the globals' initializers and setup() up to the point    *)
(* where it enables the timer interrupts (TIMSK1, TIMSK2).  What is left   *)
(* of setup() is setNotePitch(60), which the handlers can interrupt like   *)
(* any callback; MIDI.read() is first called after setup() has returned.   *)
(***************************************************************************)
Init ==
    /\ keysPressedArray = {}
    /\ currentMidiNote = 0
    /\ analogControlVoltage = 0
    /\ bendControlVoltage = 0
    /\ midiControlVoltage = 0
    /\ OCR1A = 0
    /\ OCR2B = 0
    /\ gatePin = FALSE
    /\ oddEvenIntCnt = FALSE
    /\ lfsr = <<LfsrSeedHi, LfsrSeedLo>>
    /\ noisePin = FALSE
    /\ subOscPin = FALSE
    /\ resetPin = FALSE
    /\ last = [op |-> "reset", arg |-> 0]
    /\ keyDown = {}
    /\ overflows = 0
    /\ strobes = 0
    /\ toggles = 0
    /\ ticks = 0
    /\ runLen = 0
    /\ pitchedNote = -1
    /\ bentBy = 0
    /\ todo = setupSteps
    /\ arg = SetupNote
    /\ TEMP = 0
    /\ timerSetting = 0
    /\ freqHz = <<0, 0>>

\* the rest of setup(): setNotePitch(60)
setup(err) ==
    /\ todo # <<>>
    /\ setNotePitch(SetupNote, err)
    /\ todo' = <<>>
    /\ last' = [op |-> "setup", arg |-> SetupNote]
    /\ UNCHANGED <<keysPressedArray, currentMidiNote, analogControlVoltage,
                   bendControlVoltage, bentBy, gatePin, keyDown, arg,
                   toggleVars, noiseVars>>

Next ==
    \/ \E err \in PowErrors : setup(err)
    \/ todo = <<>> /\ \E pitch \in Pitches, err \in PowErrors : handleNoteOn(pitch, err)
    \/ todo = <<>> /\ \E pitch \in Pitches, err \in PowErrors : handleNoteOff(pitch, err)
    \/ todo = <<>> /\ \E bend \in Bends, err \in PowErrors : handlePitchBend(bend, err)
    \/ TIMER1_OVF_vect
    \/ TIMER2_OVF_vect(MaxNoiseTicks)

Spec == Init /\ [][Next]_vars

\* the noise generator alone, over its first 2^20 ticks
NextNoise == TIMER2_OVF_vect(NoiseWindow)

SpecNoise == Init /\ [][NextNoise]_vars

\* the callbacks write by write, with the handlers free to run in between
NextSteps ==
    \/ \E pitch \in StepPitches : beginNoteOn(pitch)
    \/ \E pitch \in StepPitches : beginNoteOff(pitch)
    \/ \E bend \in StepBends : beginPitchBend(bend)
    \/ \E err \in PowErrors : mainStep(err)
    \/ TIMER1_OVF_vect
    \/ TIMER2_OVF_vect(StepNoiseTicks)

SpecSteps == Init /\ [][NextSteps]_vars

(***************************************************************************)
(* Claims.                                                                 *)
(***************************************************************************)
\* keysPressedArray[n] of the source
Key(n) == IF n \in keysPressedArray THEN 1 ELSE 0

HeldNotes == {n \in NoteRange : Key(n) = 1}

\* C1: when NoteOff(n) arrives for the sounding note n and another note is
\* still held, the sounding note becomes the highest-numbered note still
\* held over the whole range 0..127, and the gate stays asserted.
C1_RepriorityToHighestHeld ==
    [][ (/\ last'.op = "NoteOff"
         /\ last'.arg = currentMidiNote
         /\ gatePin
         /\ Key(currentMidiNote) = 1
         /\ HeldNotes \ {currentMidiNote} # {})
        => (/\ currentMidiNote' = Max(HeldNotes \ {currentMidiNote})
            /\ gatePin') ]_vars

\* C2: whenever the held-key set is empty, the gate is deasserted.
C2_GateLowWhenNothingHeld == (HeldNotes = {}) => ~gatePin

\* C2 witness: note 64 was sounding alone and its NoteOff released the last key.
C2_Witness ==
    /\ last = [op |-> "NoteOff", arg |-> 64]
    /\ currentMidiNote = 64
    /\ midiControlVoltage = NoteVoltage(64)
    /\ HeldNotes = {}
    /\ ~gatePin

\* C3 as claimed: the NoteOff that releases the last held key leaves the
\* controller with no current note (no note number stored).
C3_CurrentNoteCleared ==
    [][ (/\ last'.op = "NoteOff"
         /\ Key(last'.arg) = 1
         /\ HeldNotes' = {})
        => currentMidiNote' \notin NoteRange ]_vars

\* C3 amended: currentMidiNote is never cleared.  A step other than a
\* NoteOn that ends with no key held leaves the gate low and the stored
\* note number as it was (still a note number in 0..127); when the
\* released key was the sounding one, that number is the released note.
C3_CurrentNoteKeptUntilNextNoteOn ==
    [][ (last'.op # "NoteOn" /\ HeldNotes' = {})
        => (/\ currentMidiNote' = currentMidiNote
            /\ currentMidiNote' \in NoteRange
            /\ ~gatePin'
            /\ (last'.op = "NoteOff" /\ gatePin => currentMidiNote' = last'.arg)) ]_vars

\* C3 witness: 64 sounded alone, was released, and is still the stored note
\* after a pitch bend.
C3_Witness ==
    /\ last.op = "PitchBend"
    /\ HeldNotes = {}
    /\ keyDown = {}
    /\ currentMidiNote = 64
    /\ midiControlVoltage = NoteVoltage(64)
    /\ ~gatePin

\* C4: after NoteOn(n), n is marked held, the note voltage is (n - 21)/12 V
\* (the float holding it: NoteVoltage(n)),
\* the gate is asserted and the current note is n.
C4_NoteOnTakesPriority ==
    last.op = "NoteOn" =>
        /\ Key(last.arg) = 1
        /\ midiControlVoltage = NoteVoltage(last.arg)
        /\ gatePin
        /\ currentMidiNote = last.arg

\* C4 witness: NoteOn(60) arrived while the higher notes 64 and 127 were held.
C4_Witness ==
    /\ last = [op |-> "NoteOn", arg |-> 60]
    /\ {64, 127} \subseteq HeldNotes
    /\ currentMidiNote = 60
    /\ gatePin

\* C5: NoteOff(m) for a note m that is not the stored current note changes
\* only the held-set entry of m.
C5_NoteOffOfOtherNoteOnlyClearsKey ==
    [][ (last'.op = "NoteOff" /\ last'.arg # currentMidiNote)
        => (/\ keysPressedArray' = keysPressedArray \ {last'.arg}
            /\ UNCHANGED <<currentMidiNote, gatePin, midiControlVoltage,
                           bendControlVoltage, analogControlVoltage, OCR1A, OCR2B>>) ]_vars

\* C5 witness: 60 and 64 pressed, 60 released, 64 still sounding.
C5_Witness ==
    /\ last = [op |-> "NoteOff", arg |-> 60]
    /\ HeldNotes = {64}
    /\ currentMidiNote = 64
    /\ midiControlVoltage = NoteVoltage(64)
    /\ gatePin

\* C6: a NoteOff for a note that is not marked held changes neither the
\* current note nor the gate, also when it names the stored current note.
C6_NoteOffOfReleasedNoteIdempotent ==
    [][ (last'.op = "NoteOff" /\ Key(last'.arg) = 0)
        => (currentMidiNote' = currentMidiNote /\ gatePin' = gatePin) ]_vars

\* C6 witness: at power-on the stored current note is 0 and the pitch is that
\* of note 60; a NoteOff(0) arrived before any NoteOn.
C6_Witness ==
    /\ last = [op |-> "NoteOff", arg |-> 0]
    /\ currentMidiNote = 0
    /\ midiControlVoltage = NoteVoltage(SetupNote)
    /\ keyDown = {}
    /\ ~gatePin

\* C7: the held-set entry of k is 1 iff the most recent NoteOn/NoteOff
\* event for k was a NoteOn.
C7_HeldSetTracksNoteEvents ==
    \A k \in NoteRange : (Key(k) = 1) <=> (k \in keyDown)

\* C7 witness: 64 was released while 60 and 127 were held, re-priority made
\* 60 the current note, and the held set is still {60, 127}.
C7_Witness ==
    /\ last = [op |-> "NoteOff", arg |-> 64]
    /\ currentMidiNote = 60
    /\ gatePin
    /\ keyDown = {60, 127}
    /\ HeldNotes = {60, 127}

\* C8: after N timer 1 overflows the reset strobe has fired N div 2 times and
\* the sub oscillator has toggled N div 2 times; the parity flag is set
\* exactly after an odd number of overflows.
C8_HalfRateStrobeAndToggle ==
    /\ strobes = overflows \div 2
    /\ toggles = overflows \div 2
    /\ oddEvenIntCnt = (overflows % 2 = 1)
    /\ subOscPin = (toggles % 2 = 1)
    /\ ~resetPin

\* C8 witness: three overflows, interleaved with a NoteOn and a noise tick,
\* produced one strobe and one toggle.
C8_Witness ==
    /\ overflows = 3
    /\ strobes = 1
    /\ toggles = 1
    /\ ticks = MaxNoiseTicks
    /\ gatePin
    /\ last.op = "TIMER1_OVF"

\* 16-bit words at the edges of the register, for the one-step check of C9
EdgeWords == {0, 1, 2, 3, 256, 768, 17920, 32767, 32768, 41728, 41729, 65534, 65535}

\* C9: lfsr is non-zero in every state reached from the seed, and one
\* advance maps a non-zero register (edge patterns of both words) to a
\* non-zero register.
C9_LfsrNeverZero ==
    /\ lfsr # <<0, 0>>
    /\ ticks = 0 =>
          \A hi \in EdgeWords, lo \in EdgeWords :
              <<hi, lo>> # <<0, 0>> => LfsrAdvance(<<hi, lo>>) # <<0, 0>>

\* C9 witness: the first tick shifted the seed's only 1 out of the register
\* and the feedback mask kept it non-zero.
C9_Witness ==
    /\ ticks = 1
    /\ noisePin
    /\ lfsr = <<FeedbackHi, FeedbackLo>>

\* C10: from seed 1, each tick puts on the noise pin the low bit the register
\* had before that tick's advance, and within the first 2^20 ticks the
\* emitted bits never stay constant: no run of equal bits is longer than
\* the register width.
C10_NoiseBitIsLsbAndNotConstant ==
    /\ [](runLen <= LfsrBits)
    /\ [][ ticks' = ticks + 1 => noisePin' = (lfsr[2] % 2 = 1) ]_vars

\* C10 witness: after the seed's 1 and the run of 24 zeros that follows it,
\* tick 26 emits a 1 again.
C10_Witness ==
    /\ ticks = 26
    /\ noisePin
    /\ runLen = 1

\* the effective control voltage as the three components stand
ControlVoltage ==
    F32Add(F32Add(midiControlVoltage, bendControlVoltage), analogControlVoltage)

\* the timer period and the PWM duty are the ones updateNotePitch derives
\* from the frequency freq
DrivenAt(freq) == OCR1A = TimerSetting(freq) /\ OCR2B = oscSetPwm(freq)

\* ... from the control voltage cv, whatever rounding error pow() made
DerivedFrom(cv) == \E err \in PowErrRange : DrivenAt(FreqHz(cv, err))

\* no callback, and no part of setup(), is part-way through
Idle == todo = <<>>

\* C11: PitchBend(value) sets the bend component to value / 32768 V and
\* reprograms the timer period and the PWM drive from the new sum at once,
\* gate on or off; the gate, the held-key set, the current note and the note
\* voltage component are left unchanged.
C11_PitchBendFrame ==
    /\ [](last.op = "PitchBend"
          => /\ bendControlVoltage = last.arg * (CvUnitsPerVolt \div 32768)
             /\ DerivedFrom(ControlVoltage))
    /\ [][ last'.op = "PitchBend"
           => UNCHANGED <<gatePin, keysPressedArray, currentMidiNote,
                          midiControlVoltage, analogControlVoltage>> ]_vars

\* C11 witness: the lowest bend arrived with the gate off before any NoteOn
\* and the period of note 60 was reprogrammed three semitones down.
C11_Witness ==
    /\ last = [op |-> "PitchBend", arg |-> -8192]
    /\ ~gatePin
    /\ keyDown = {}
    /\ midiControlVoltage = NoteVoltage(SetupNote)
    /\ OCR1A = PeriodTicks(FreqHz(NoteVoltage(SetupNote - 3), 0))
    /\ OCR1A # PeriodTicks(FreqHz(NoteVoltage(SetupNote), 0))

\* C12: once setup() is over, the timer compare register holds exactly
\* round(1e6 / freq - 1), with no wrap-around modulo 2^16, low notes included
\* (freq being 27.5 * pow(2, voltage) under some rounding error of pow()).
C12_TimerHoldsExactPeriod ==
    Idle => \E err \in PowErrRange : OCR1A = PeriodTicks(FreqHz(ControlVoltage, err))

\* C15: the PWM duty written to OCR2B lies in 0..255; it is
\* round(0.2 * freq) when that is at most 255 and 255 otherwise, and the
\* rounded value fits the 16-bit int it is stored in.  Checked on the state
\* and, once, for every note 0..127 with every bend of Bends and every
\* rounding error of pow().
PwmDutyAsClaimed(freq, duty) ==
    LET r == PwmRound(freq)
    IN  /\ duty \in 0..255
        /\ r \in 0..32767
        /\ duty = IF r <= 255 THEN r ELSE 255

\* oscSetPwm stores the duty as claimed
PwmDutyOf(freq) == PwmDutyAsClaimed(freq, oscSetPwm(freq))

C15_PwmDutyClamped ==
    /\ Idle => /\ \E err \in PowErrRange : freqHz = FreqHz(ControlVoltage, err)
               /\ PwmDutyAsClaimed(freqHz, OCR2B)
    /\ last.op = "setup" =>
          \A n \in NoteRange, b \in Bends, err \in PowErrRange :
              PwmDutyOf(FreqHz(F32Add(NoteVoltage(n), BendVoltage(b)), err))

\* C15 witness: note 127 bent fully up, where round(0.2 * freq) is far above
\* 255 and the duty is capped.
C15_Witness ==
    /\ currentMidiNote = 127
    /\ bentBy = 8191
    /\ PwmRound(freqHz) > 2048
    /\ OCR2B = 255

\* C17: after every MIDI event the timer period and the PWM drive are those
\* of noteVoltage(note last passed to the note-on logic, 60 if none) +
\* (value of the last PitchBend, 0 if none) / 32768.
C17_PitchFollowsLastNoteAndBend ==
    Idle =>
        /\ pitchedNote \in NoteRange
        /\ midiControlVoltage = NoteVoltage(pitchedNote)
        /\ bendControlVoltage = bentBy * (CvUnitsPerVolt \div 32768)
        /\ DerivedFrom(F32Add(NoteVoltage(pitchedNote), BendVoltage(bentBy)))

\* C17 witness: a bend of 8191 was followed by note events; the re-priority
\* on NoteOff(64) made 60 the pitched note and the bend is still applied,
\* with pow() at the upper end of its error range.
C17_Witness ==
    /\ last = [op |-> "NoteOff", arg |-> 64]
    /\ pitchedNote = 60
    /\ bentBy = 8191
    /\ gatePin
    /\ freqHz = FreqHz(ControlVoltage, PowUlps)
    /\ OCR1A # PeriodTicks(FreqHz(NoteVoltage(60), 0))

\* C19: whenever the gate is asserted, the stored current note is marked
\* held and the note voltage is (currentMidiNote - 21) / 12 V (the float
\* holding it: NoteVoltage(currentMidiNote)).
C19_GateHighMeansCurrentNoteHeld ==
    gatePin =>
        /\ Key(currentMidiNote) = 1
        /\ midiControlVoltage = NoteVoltage(currentMidiNote)

\* C19 witness: 127 was released while 0 and 64 were held; 64 sounds.
C19_Witness ==
    /\ last = [op |-> "NoteOff", arg |-> 127]
    /\ HeldNotes = {0, 64}
    /\ currentMidiNote = 64
    /\ gatePin

\* C20: whenever at least one note in 0..127 is marked held, the gate is
\* asserted.
C20_GateHighWhileAnyKeyHeld == (HeldNotes # {}) => gatePin

(***************************************************************************)
(* Claims about the interleaving of the callbacks and the handlers, in     *)
(* SpecSteps.                                                              *)
(***************************************************************************)
HandlerStep == overflows' # overflows \/ ticks' # ticks

\* C13: the period register is never torn: every step leaves OCR1A at the
\* complete value it had or sets it to the complete value the running
\* recompute stores, so an overflow between any two steps sees one of the two.
C13_PeriodNeverTorn == [][ OCR1A' \in {OCR1A, timerSetting} ]_vars

\* an overflow struck between the two byte writes of a period whose high byte
\* changes, and the old period was still in effect
C13_Witness ==
    /\ last.op = "TIMER1_OVF"
    /\ todo # <<>> /\ Head(todo) = "OCR1AL"
    /\ TEMP = timerSetting \div 256
    /\ TEMP # OCR1A \div 256
    /\ timerSetting % 256 # OCR1A % 256
    /\ OCR1A # 0

\* a NoteOn, NoteOff or PitchBend is part-way through its writes
InEvent == todo # <<>> /\ todo[Len(todo)] # "loop"

\* C14 as stated: a handler runs only when no MIDI event is part-way through.
C14_HandlersOnlyBetweenEvents == [][ HandlerStep => ~InEvent ]_vars

\* C14: MIDI events are processed one at a time to completion: while a callback
\* is running, a step is either its next write (and no new event is taken) or a
\* handler, which leaves the MIDI state and the callback's progress alone.
C14_EventsRunToCompletion ==
    [][ todo # <<>>
        => \/ /\ HandlerStep
              /\ UNCHANGED <<midiVars, pitchHist, stepVars, keyDown>>
           \/ /\ todo' = Tail(todo)
              /\ UNCHANGED <<keysPressedArray, bendControlVoltage, bentBy, arg,
                             keyDown, last, toggleVars, noiseVars>> ]_vars

\* a handler ran between the timer reprogramming and the gate write of a NoteOn
C14_Witness ==
    /\ last.op \in {"TIMER1_OVF", "TIMER2_OVF"}
    /\ todo # <<>> /\ Head(todo) = "gateHigh"
    /\ OCR1A = timerSetting
    /\ ~gatePin

\* C16: the handlers and the MIDI path write disjoint state: an overflow changes
\* only the parity flag, the reset strobe and the sub-oscillator pin; a noise
\* tick changes only the register and the noise pin; every other step leaves
\* those five alone.
C16_DisjointState ==
    [][ /\ overflows' # overflows
           => UNCHANGED <<midiVars, pitchHist, stepVars, keyDown, lfsr, noisePin>>
        /\ ticks' # ticks
           => UNCHANGED <<midiVars, pitchHist, stepVars, keyDown,
                          oddEvenIntCnt, subOscPin, resetPin>>
        /\ ~HandlerStep
           => UNCHANGED <<oddEvenIntCnt, subOscPin, resetPin, lfsr, noisePin>> ]_vars

\* a noise tick struck inside a NoteOn while the sub-oscillator pin was high,
\* and the pin is still high
C16_Witness ==
    /\ last.op = "TIMER2_OVF"
    /\ subOscPin /\ toggles = 1
    /\ noisePin
    /\ todo # <<>> /\ Head(todo) = "OCR1AL"

\* C18: when the gate goes from low to high, the note voltage, the timer period
\* and the PWM drive are already those of the note about to sound, and the
\* current note is not yet recorded in that step.
C18_PitchSetBeforeGate ==
    [][ (~gatePin /\ gatePin')
        => LET cv == F32Add(F32Add(NoteVoltage(arg), bendControlVoltage),
                            analogControlVoltage)
           IN  /\ midiControlVoltage = NoteVoltage(arg)
               /\ DerivedFrom(cv)
               /\ UNCHANGED <<midiControlVoltage, OCR1A, OCR2B, currentMidiNote>>
               /\ todo' = <<"currentMidiNote">> ]_vars

\* the gate has just risen for note 64 after note 60 sounded: the pitch is that
\* of 64 while the current note still reads 60
C18_Witness ==
    /\ gatePin
    /\ todo = <<"currentMidiNote">>
    /\ arg = 64 /\ currentMidiNote = 60
    /\ keysPressedArray = {64}
    /\ OCR1A = PeriodTicks(FreqHz(F32Add(NoteVoltage(64), bendControlVoltage), 0))
    /\ OCR1A # PeriodTicks(FreqHz(F32Add(NoteVoltage(60), bendControlVoltage), 0))

====
